---------------------------- MODULE Spec2Model ----------------------------
(***************************************************************************)
(* A model of the Huff debugger glue of vscode-huff:                       *)
(*   - src/src/features/debugger/debuggerUtils.js  (installation checks,   *)
(*     deploy command, cache directory, state repository, formatEvenBytes) *)
(*   - src/unnamed/part_000  (DebuggerViewProvider and the webview script) *)
(* Four independent subsystems share the module; each has its own          *)
(* specification (SpecInstall, SpecFmt, SpecFs, SpecUi) that moves only    *)
(* its own variables and leaves the others parked in an initial state.     *)
(***************************************************************************)
EXTENDS Integers, Sequences, FiniteSets, TLC

VARIABLES
    \* ---- installation checker (debuggerUtils.js:163-223)
    hevmInstalled,   \* the host PATH holds an executable "hevm"
    huffcInstalled,  \* the host PATH holds an executable "huffc"
    pcInst,          \* position of the running checkInstallations call
    hevmInvoked,     \* checkHevmInstallation was called in the current call
    huffcInvoked,    \* checkHuffcInstallation was called in the current call
    results,         \* the array handed to Promise.all, once settled
    returned,        \* what checkInstallations resolved to
    shown,           \* vscode.window.showErrorMessage texts, oldest first
    shownAtCall,     \* Len(shown) when the current call started
    calls,           \* number of checkInstallations calls started
    \* ---- formatEvenBytes (debuggerUtils.js:229-234)
    fmtIn,           \* the argument, a sequence of characters
    fmtOut,          \* formatEvenBytes(fmtIn), once computed
    fmtOut2,         \* formatEvenBytes(fmtOut), once computed
    fmtPc,           \* how many times the literal has been formatted
    \* ---- cache directory and state repository (debuggerUtils.js:17-99)
    statePath,       \* config.statePath, the same for the whole run
    cacheDir,        \* <cwd>/cache exists
    repo,            \* the directory <cwd>/<statePath>
    cmdFile,         \* contents of <cwd>/<tempHevmCommandFilename>
    lastOp,          \* what the latest operation did
    \* ---- webview and host router (part_000)
    docTable,        \* function table of the active document
    wvState,         \* the webview's persisted state (vscode.getState())
    functionSelectors, \* script variable, part_000:150
    selectedFunction,  \* script variable, part_000:151
    options,         \* option texts of #function-select, in order
    selectValue,     \* #function-select's value
    inputs,          \* values of the inputs under .args-inputs, in order
    toHost,          \* messages posted by the webview, not yet handled
    toWebview,       \* messages posted by the host, not yet handled
    debugCalls,      \* arguments of the startDebugger calls made
    debugClicks,     \* clicks on .start-debug so far
    uiEvent          \* the handler that ran last

instVars == <<hevmInstalled, huffcInstalled, pcInst, hevmInvoked, huffcInvoked,
              results, returned, shown, shownAtCall, calls>>
fmtVars == <<fmtIn, fmtOut, fmtOut2, fmtPc>>
fsVars == <<statePath, cacheDir, repo, cmdFile, lastOp>>
uiVars == <<docTable, wvState, functionSelectors, selectedFunction, options,
            selectValue, inputs, toHost, toWebview, debugCalls, debugClicks,
            uiEvent>>
vars == <<instVars, fmtVars, fsVars, uiVars>>

(***************************************************************************)
(* Installation checker                                                    *)
(***************************************************************************)

\* checkInstallations calls a run may start.
MaxCalls == 3

\* debuggerUtils.js:175
HevmMessage == "Hevm installation required - install here: https://github.com/dapphub/dapptools#installation"
\* debuggerUtils.js:194
HuffcMessage == "Huffc compiler installation required - install here: https://github.com/huff-language/huff-rs"

\* A JavaScript boolean, as an element of the array of line 206.
Bool(b) == [kind |-> "boolean", value |-> b]

\* The array element `checkHuffcInstallation` of debuggerUtils.js:208: the
\* function object itself, not the promise its invocation would give.
FunctionRef == [kind |-> "function", value |-> TRUE]

\* JavaScript truthiness of the values that reach results.every (line 210):
\* a boolean is its own value, a function object is truthy.
Truthy(v) == v.kind = "function" \/ v.value

\* registerError (220-223): the message is shown to the user.
registerError(log, message) == Append(log, message)

\* checkHevmInstallation (168-179) once commandExists("hevm") has settled:
\* the value the promise resolves to and the messages shown.
checkHevmInstallation(present, log) ==
    IF present
    THEN [value |-> TRUE, log |-> log]
    ELSE [value |-> FALSE, log |-> registerError(log, HevmMessage)]

\* checkHuffcInstallation (187-198), as above for "huffc". Nothing in the
\* module calls it: line 208 passes the function itself to Promise.all.
checkHuffcInstallation(present, log) ==
    IF present
    THEN [value |-> TRUE, log |-> log]
    ELSE [value |-> FALSE, log |-> registerError(log, HuffcMessage)]

InstInit ==
    /\ hevmInstalled \in BOOLEAN
    /\ huffcInstalled \in BOOLEAN
    /\ pcInst = "idle"
    /\ hevmInvoked = FALSE
    /\ huffcInvoked = FALSE
    /\ results = <<>>
    /\ returned = FALSE
    /\ shown = <<>>
    /\ shownAtCall = 0
    /\ calls = 0

InstIdle ==
    /\ hevmInstalled = TRUE
    /\ huffcInstalled = TRUE
    /\ pcInst = "idle"
    /\ hevmInvoked = FALSE
    /\ huffcInvoked = FALSE
    /\ results = <<>>
    /\ returned = FALSE
    /\ shown = <<>>
    /\ shownAtCall = 0
    /\ calls = 0

\* checkInstallations (205-211), up to the await of line 206: the array
\* literal is evaluated, which calls checkHevmInstallation (it runs to its
\* own await of commandExists, line 170) and only names checkHuffcInstallation.
checkInstallations ==
    /\ pcInst \in {"idle", "done"}
    /\ calls < MaxCalls
    /\ calls' = calls + 1
    /\ pcInst' = "awaitHevm"
    /\ hevmInvoked' = TRUE
    /\ huffcInvoked' = FALSE
    /\ results' = <<>>
    /\ returned' = FALSE
    /\ shownAtCall' = Len(shown)
    /\ UNCHANGED <<hevmInstalled, huffcInstalled, shown>>

\* commandExists("hevm") settles and checkHevmInstallation finishes (170-178).
HevmCheckSettles ==
    /\ pcInst = "awaitHevm"
    /\ LET r == checkHevmInstallation(hevmInstalled, shown)
       IN /\ results' = <<Bool(r.value), FunctionRef>>
          /\ shown' = r.log
    /\ pcInst' = "awaitAll"
    /\ UNCHANGED <<hevmInstalled, huffcInstalled, hevmInvoked, huffcInvoked,
                   returned, shownAtCall, calls>>

\* Promise.all resolves and line 210 folds the array.
PromiseAllResolves ==
    /\ pcInst = "awaitAll"
    /\ returned' = (\A i \in 1..Len(results) : Truthy(results[i]))
    /\ pcInst' = "done"
    /\ UNCHANGED <<hevmInstalled, huffcInstalled, hevmInvoked, huffcInvoked,
                   results, shown, shownAtCall, calls>>

\* The user installs or removes a tool between two checks; the result of
\* an earlier check no longer describes the host.
ToolsChange ==
    /\ pcInst \in {"idle", "done"}
    /\ \E h \in BOOLEAN, c \in BOOLEAN :
          /\ <<h, c>> # <<hevmInstalled, huffcInstalled>>
          /\ hevmInstalled' = h
          /\ huffcInstalled' = c
    /\ pcInst' = "idle"
    /\ UNCHANGED <<hevmInvoked, huffcInvoked, results, returned,
                   shown, shownAtCall, calls>>

\* The messages shown since the current call started.
ShownThisCall == SubSeq(shown, shownAtCall + 1, Len(shown))

(***************************************************************************)
(* formatEvenBytes                                                         *)
(***************************************************************************)

\* Longest digit string after "0x" that is tried.
MaxDigits == 4

HexDigits == {"0", "1", "f"}

\* "0x" followed by n hex digits, as sequences of characters.
HexStrings ==
    UNION { { <<"0", "x">> \o d : d \in [1..n -> HexDigits] } : n \in 0..MaxDigits }

\* Whether pat occurs in s at position i.
OccursAt(s, pat, i) ==
    /\ i + Len(pat) - 1 <= Len(s)
    /\ \A k \in 1..Len(pat) : s[i + k - 1] = pat[k]

\* String.prototype.replace with a string pattern: the first occurrence of
\* pat is replaced by rep; a string without pat is returned as it is.
replace(s, pat, rep) ==
    LET hits == { i \in 1..Len(s) : OccursAt(s, pat, i) }
    IN IF hits = {}
       THEN s
       ELSE LET i == CHOOSE j \in hits : \A k \in hits : j <= k
            IN SubSeq(s, 1, i - 1) \o rep \o SubSeq(s, i + Len(pat), Len(s))

\* A formatEvenBytes that pads whatever the length.
formatEvenBytesAlways(bytes) ==
    replace(bytes, <<"0", "x">>, <<"0", "x", "0">>)

\* formatEvenBytes (229-234).
formatEvenBytes(bytes) ==
    IF Len(bytes) % 2 # 0
    THEN replace(bytes, <<"0", "x">>, <<"0", "x", "0">>)
    ELSE bytes

FmtInit ==
    /\ fmtIn \in HexStrings
    /\ fmtOut = <<>>
    /\ fmtOut2 = <<>>
    /\ fmtPc = 0

FmtIdle ==
    /\ fmtIn = <<"0", "x">>
    /\ fmtOut = <<>>
    /\ fmtOut2 = <<>>
    /\ fmtPc = 0

\* A caller formats a literal.
Format ==
    /\ fmtPc = 0
    /\ fmtOut' = formatEvenBytes(fmtIn)
    /\ fmtPc' = 1
    /\ UNCHANGED <<fmtIn, fmtOut2>>

\* A caller formats an already formatted literal.
FormatAgain ==
    /\ fmtPc = 1
    /\ fmtOut2' = formatEvenBytes(fmtOut)
    /\ fmtPc' = 2
    /\ UNCHANGED <<fmtIn, fmtOut>>

\* The hex digits of a "0x" literal.
Digits(s) == SubSeq(s, 3, Len(s))

(***************************************************************************)
(* Cache directory, command file, state repository, deployContract         *)
(***************************************************************************)

\* The workspace folder handed in as cwd.
Cwd == "/ws"

\* The values of config.statePath tried: inside the cache directory and
\* beside it.
StatePaths == {"cache/state", "state"}

\* config.tempHevmCommandFilename: the command file lives in the cache
\* directory that writeHevmCommand creates before writing it.
TempHevmCommandFilename == "cache/hevmtemp"

\* The bytecodes tried.
Bytecodes == {"0x00", "0x6001"}

HevmContractAddress == "0x00000000000000000000000000000000000000AA"
HevmCaller == "0x00000000000000000000000000000000000000BB"

\* The deploy configs tried (the fields deployContract reads).
Configs(sp) ==
    [stateChecked : BOOLEAN, storageChecked : BOOLEAN, statePath : {sp},
     hevmContractAddress : {HevmContractAddress}, hevmCaller : {HevmCaller},
     tempHevmCommandFilename : {TempHevmCommandFilename}]

\* Calls of the host that can fail for reasons outside the program: a
\* permission or disk error of fs.rmSync / fs.mkdirSync / fs.writeFileSync,
\* a failing `git init` or `git commit`, a non-zero exit of hevm.
Faults == {"rm", "mkdirCache", "mkdir", "gitInit", "gitCommit", "write", "hevm"}

\* Calls that fail during one operation, at most.
MaxFaults == 1

\* The failures one operation may meet among those of its calls.
FaultSets(S) == { f \in SUBSET S : Cardinality(f) <= MaxFaults }

\* What a refused deletion may leave, when there is one.
Gutted(faults) == IF "rm" \in faults THEN BOOLEAN ELSE {FALSE}

\* A directory that does not exist.
Absent == [exists |-> FALSE, git |-> FALSE, revs |-> 0, tracked |-> 0]
\* A directory just made by fs.mkdirSync.
EmptyDir == [exists |-> TRUE, git |-> FALSE, revs |-> 0, tracked |-> 0]
\* A repository after `git init`.
EmptyRepo == [exists |-> TRUE, git |-> TRUE, revs |-> 0, tracked |-> 0]
\* A repository after `git init && git commit --allow-empty -m "init"`.
FreshRepo == [exists |-> TRUE, git |-> TRUE, revs |-> 1, tracked |-> 0]

\* No command file.
NoFile == <<>>

InCache(sp) == sp = "cache/state"

\* cwd + "/" + statePath (lines 33 and 84), for the paths tried.
Join(cwd, sp) ==
    CASE cwd = "/ws" /\ sp = "cache/state" -> "/ws/cache/state"
      [] cwd = "/ws" /\ sp = "state" -> "/ws/state"

\* A deployContract that builds the --state flag from stateChecked alone.
commandStateOnly(bytecode, cfg, cwd) ==
    <<"hevm", "exec", "--code", bytecode,
      "--address", cfg.hevmContractAddress, "--create",
      "--caller", cfg.hevmCaller, "--gas", "0xffffffff">>
    \o (IF cfg.stateChecked
        THEN <<"--state", Join(cwd, cfg.statePath)>>
        ELSE <<>>)

\* The template literal of deployContract (27-34), token by token.
command(bytecode, cfg, cwd) ==
    <<"hevm", "exec", "--code", bytecode,
      "--address", cfg.hevmContractAddress, "--create",
      "--caller", cfg.hevmCaller, "--gas", "0xffffffff">>
    \o (IF cfg.stateChecked \/ cfg.storageChecked
        THEN <<"--state", Join(cwd, cfg.statePath)>>
        ELSE <<>>)

\* The check-then-create of lines 58-59 and 91-92: fs.accessSync throws when
\* <cwd>/cache is absent, and the catch makes it with fs.mkdirSync.
ensureCache(fs, faults) ==
    IF fs.cache
    THEN [fs |-> fs, outcome |-> "ok", steps |-> <<"access">>]
    ELSE IF "mkdirCache" \in faults
         THEN [fs |-> fs, outcome |-> "threw", steps |-> <<"access", "mkdirCache">>]
         ELSE [fs |-> [fs EXCEPT !.cache = TRUE], outcome |-> "ok",
               steps |-> <<"access", "mkdirCache">>]

\* writeHevmCommand (56-61).
writeHevmCommand(fs, cmd, faults) ==
    LET e == ensureCache(fs, faults)
    IN IF e.outcome = "threw"
       THEN e
       ELSE IF "write" \in faults
            THEN [fs |-> e.fs, outcome |-> "threw", steps |-> e.steps \o <<"write">>]
            ELSE [fs |-> [e.fs EXCEPT !.cmd = cmd], outcome |-> "ok",
                  steps |-> e.steps \o <<"write">>]

\* What fs.rmSync(path, {recursive: true}) raises: ENOENT for a path that
\* is not there, EACCES when the host refuses the deletion, nothing otherwise.
rmError(exists, faults) ==
    IF ~exists THEN "ENOENT"
    ELSE IF "rm" \in faults THEN "EACCES"
    ELSE "none"

\* purgeCache (64-67): the catch takes every error of rmSync.
purgeCache(fs, sp, faults) ==
    LET err == rmError(fs.cache, faults)
    IN [fs |-> IF err = "none"
               THEN [cache |-> FALSE, cmd |-> NoFile,
                     repo |-> IF InCache(sp) THEN Absent ELSE fs.repo]
               ELSE fs,
        outcome |-> "ok",
        steps |-> IF err = "none" THEN <<"rm">> ELSE <<"rm", "log">>,
        rmError |-> err]

\* A resetStateRepo whose mkdir tolerates an existing directory (as
\* fs.mkdirSync(fullPath, {recursive: true}) would) and that does not
\* delete the old state first.
resetStateRepoKeepOld(fs, sp, faults, gutted) ==
    LET e == ensureCache(fs, faults)
        dir == IF fs.repo.exists THEN fs.repo ELSE EmptyDir
        committed == [dir EXCEPT !.git = TRUE, !.revs = dir.revs + 1]
    IN IF e.outcome = "threw"
       THEN [fs |-> e.fs, outcome |-> "threw", steps |-> <<"rm">> \o e.steps,
             rmError |-> "none"]
       ELSE IF "gitInit" \in faults \/ "gitCommit" \in faults \/ "mkdir" \in faults
            THEN [fs |-> e.fs, outcome |-> "threw",
                  steps |-> <<"rm">> \o e.steps \o <<"mkdir">>, rmError |-> "none"]
            ELSE [fs |-> [e.fs EXCEPT !.repo = committed], outcome |-> "ok",
                  steps |-> <<"rm">> \o e.steps \o <<"mkdir", "gitInit", "gitCommit">>,
                  rmError |-> "none"]

\* resetStateRepo (81-99). gutted says what a refused deletion leaves of the
\* directory: all of it, or the directory without its contents.
resetStateRepo(fs, sp, faults, gutted) ==
    LET err == rmError(fs.repo.exists, faults)
        \* 87-88: every error of rmSync is caught and logged
        afterRm == IF err = "none" THEN Absent
                   ELSE IF err = "EACCES" /\ gutted THEN EmptyDir
                   ELSE fs.repo
        s1 == IF err = "none" THEN <<"rm">> ELSE <<"rm", "log">>
        \* 91-92
        e == ensureCache([fs EXCEPT !.repo = afterRm], faults)
        s2 == s1 \o e.steps
        res(f, o, st) == [fs |-> f, outcome |-> o, steps |-> st, rmError |-> err]
    IN IF e.outcome = "threw" THEN res(e.fs, "threw", s2)
       \* 93: mkdirSync raises EEXIST on a directory that is still there
       ELSE IF afterRm.exists \/ "mkdir" \in faults
            THEN res(e.fs, "threw", s2 \o <<"mkdir">>)
       \* 96-97: `git init && git commit --allow-empty -m "init"`
       ELSE IF "gitInit" \in faults
            THEN res([e.fs EXCEPT !.repo = EmptyDir], "threw",
                     s2 \o <<"mkdir", "gitInit">>)
       ELSE IF "gitCommit" \in faults
            THEN res([e.fs EXCEPT !.repo = EmptyRepo], "threw",
                     s2 \o <<"mkdir", "gitInit", "gitCommit">>)
       ELSE res([e.fs EXCEPT !.repo = FreshRepo], "ok",
                s2 \o <<"mkdir", "gitInit", "gitCommit">>)

\* A checkStateRepoExistence that resets only a path that holds nothing.
checkStateRepoExistenceIfMissing(fs, sp, faults, gutted) ==
    IF fs.repo.exists
    THEN [fs |-> fs, outcome |-> "ok", steps |-> <<>>, rmError |-> "none"]
    ELSE resetStateRepo(fs, sp, faults, gutted)

\* checkStateRepoExistence (69-71).
checkStateRepoExistence(fs, sp, faults, gutted) ==
    resetStateRepo(fs, sp, faults, gutted)

\* What a run of hevm with --state leaves in the state directory: one more
\* revision, holding the state files.
engineCommit(r) == [r EXCEPT !.revs = r.revs + 1, !.tracked = 1]

\* The summary an operation leaves in lastOp.
OpRecord(op, r, before, prev) ==
    [op |-> op, outcome |-> r.outcome, steps |-> r.steps, rmError |-> r.rmError,
     faultFree |-> r.faults = {}, cacheBefore |-> before.cache,
     repoBefore |-> before.repo,
     afterReset |-> prev.op = "reset" /\ prev.outcome = "ok",
     stateChecked |-> r.stateChecked, storageChecked |-> r.storageChecked,
     command |-> r.command,
     resetRan |-> r.resetRan, resetOutcome |-> r.resetOutcome,
     engineRan |-> r.engineRan, engineSaw |-> r.engineSaw]

\* The fields of a result that only deployContract fills.
NoDeploy ==
    [stateChecked |-> FALSE, storageChecked |-> FALSE, command |-> NoFile,
     resetRan |-> FALSE,
     resetOutcome |-> "none", engineRan |-> FALSE, engineSaw |-> Absent]

\* r extended with the fields of d.
With(r, d) == [k \in DOMAIN r \cup DOMAIN d |-> IF k \in DOMAIN d THEN d[k] ELSE r[k]]

\* deployContract (17-40).
deployContract(fs, bytecode, cfg, cwd, faults, gutted) ==
    LET checked == cfg.stateChecked \/ cfg.storageChecked
        \* 23-25
        r1 == IF checked
              THEN checkStateRepoExistence(fs, cfg.statePath, faults, gutted)
              ELSE [fs |-> fs, outcome |-> "ok", steps |-> <<>>, rmError |-> "none"]
        cmd == command(bytecode, cfg, cwd)
        \* 36
        r2 == writeHevmCommand(r1.fs, cmd, faults)
        base == [stateChecked |-> cfg.stateChecked,
                 storageChecked |-> cfg.storageChecked, resetRan |-> checked,
                 resetOutcome |-> IF checked THEN r1.outcome ELSE "none",
                 rmError |-> r1.rmError, faults |-> faults]
    IN IF r1.outcome = "threw"
       THEN With(base, [fs |-> r1.fs, outcome |-> "threw", steps |-> r1.steps,
                        command |-> NoFile, engineRan |-> FALSE,
                        engineSaw |-> Absent])
       ELSE IF r2.outcome = "threw"
       THEN With(base, [fs |-> r2.fs, outcome |-> "threw",
                        steps |-> r1.steps \o r2.steps, command |-> cmd,
                        engineRan |-> FALSE, engineSaw |-> Absent])
       \* 39: the shell runs the contents of the command file
       ELSE LET ran == r2.fs.cmd
                withState == \E i \in 1..Len(ran) : ran[i] = "--state"
            IN With(base,
                 [fs |-> IF withState /\ "hevm" \notin faults
                         THEN [r2.fs EXCEPT !.repo = engineCommit(r2.fs.repo)]
                         ELSE r2.fs,
                  outcome |-> IF "hevm" \in faults THEN "threw" ELSE "ok",
                  steps |-> r1.steps \o r2.steps \o <<"hevm">>,
                  command |-> cmd, engineRan |-> TRUE,
                  engineSaw |-> r2.fs.repo])

Fs == [cache |-> cacheDir, repo |-> repo, cmd |-> cmdFile]

NoOp ==
    OpRecord("none",
             With([outcome |-> "ok", steps |-> <<>>, rmError |-> "none",
                   faults |-> {}], NoDeploy),
             [cache |-> FALSE, repo |-> Absent],
             [op |-> "none", outcome |-> "ok"])

FsInit ==
    /\ statePath \in StatePaths
    /\ cacheDir = FALSE
    /\ repo = Absent
    /\ cmdFile = NoFile
    /\ lastOp = NoOp

FsIdle ==
    /\ statePath = "cache/state"
    /\ cacheDir = FALSE
    /\ repo = Absent
    /\ cmdFile = NoFile
    /\ lastOp = NoOp

\* The file system and the operation log after an operation with result r.
Commit(op, r) ==
    /\ cacheDir' = r.fs.cache
    /\ repo' = r.fs.repo
    /\ cmdFile' = r.fs.cmd
    /\ lastOp' = OpRecord(op, r, Fs, lastOp)
    /\ UNCHANGED statePath

PurgeCache ==
    \E faults \in FaultSets({"rm"}) :
        Commit("purge",
               With(With(purgeCache(Fs, statePath, faults), NoDeploy),
                    [faults |-> faults]))

WriteHevmCommand ==
    \E faults \in FaultSets({"mkdirCache", "write"}), b \in Bytecodes,
       cfg \in Configs(statePath) :
        Commit("write",
               With(With(writeHevmCommand(Fs, command(b, cfg, Cwd), faults), NoDeploy),
                    [faults |-> faults, rmError |-> "none"]))

ResetStateRepo ==
    \E faults \in FaultSets({"rm", "mkdirCache", "mkdir", "gitInit", "gitCommit"}) :
      \E gutted \in Gutted(faults) :
        Commit("reset",
               With(With(resetStateRepo(Fs, statePath, faults, gutted), NoDeploy),
                    [faults |-> faults]))

DeployContract ==
    \E faults \in FaultSets(Faults), b \in Bytecodes, cfg \in Configs(statePath) :
      \E gutted \in Gutted(faults) :
        Commit("deploy", deployContract(Fs, b, cfg, Cwd, faults, gutted))

(***************************************************************************)
(* Webview script and host router                                          *)
(***************************************************************************)

\* Messages that may wait on the message bus, both directions together.
MaxInFlight == 2
\* Clicks on .start-debug a run may hold.
MaxDebugClicks == 1

\* JavaScript null and undefined, and an entry [key, {fnSig, args}] of
\* Object.entries(functionSelectors).
Null == [kind |-> "null", key |-> "", fnSig |-> "", args |-> <<>>]
Undefined == [kind |-> "undefined", key |-> "", fnSig |-> "", args |-> <<>>]
Entry(key, fnSig, args) == [kind |-> "entry", key |-> key, fnSig |-> fnSig, args |-> args]

Foo == Entry("0xc2985578", "foo()", <<>>)
Bar == Entry("0x0423a132", "bar(uint256)", <<"uint256">>)
Baz == Entry("0x7e1a3786", "baz(address,uint256)", <<"address", "uint256">>)

\* A function table: an object whose keys are kept in insertion order, or
\* undefined.
Table(entries) == [kind |-> "object", entries |-> entries]
UndefinedTable == [kind |-> "undefined", entries |-> <<>>]

\* The tables getFunctionSignaturesAndArgs(...).sighashes is taken from.
Tables == {Table(<<>>), Table(<<Foo, Bar>>), Table(<<Baz>>)}

\* A persisted state without an argsValues key, and one with it.
NoArgsValues == [defined |-> FALSE, vals |-> {}]
ArgsValues(vals) == [defined |-> TRUE, vals |-> vals]

\* vscode.getState() of a panel that never stored a state.
UndefinedState ==
    [defined |-> FALSE, functionSelectors |-> UndefinedTable,
     selectedFunction |-> Undefined, argsValues |-> NoArgsValues]

\* {...state, k: v} on a state that may be undefined.
Spread(state) == [state EXCEPT !.defined = TRUE]

\* x || fallback for the values that reach cleanState.
OrElse(x, fallback) == IF x.kind \in {"undefined", "null"} THEN fallback ELSE x

\* cleanState (137-143): the object the script reads its variables from.
cleanState(state) ==
    [functionSelectors |-> OrElse(state.functionSelectors, Table(<<>>)),
     selectedFunction |-> OrElse(state.selectedFunction, Null),
     argsValues |-> ArgsValues({})]

\* The webview as the handlers see it.
Wv == [state |-> wvState, functionSelectors |-> functionSelectors,
       selectedFunction |-> selectedFunction, options |-> options,
       selectValue |-> selectValue, inputs |-> inputs]

\* The fnSig of every entry, in for-in order (216-220).
Sigs(table) == [i \in 1..Len(table.entries) |-> table.entries[i].fnSig]

Has(seq, x) == \E i \in 1..Len(seq) : seq[i] = x

\* state.argsValues[key][id] of line 251, "" standing for undefined.
Stored(av, key, id) ==
    LET hits == { r \in av.vals : r.key = key /\ r.id = id }
    IN IF hits = {} THEN "" ELSE (CHOOSE r \in hits : TRUE).value

\* createArgsInputs (227-271) on a click whose event.target.value is value.
createArgsInputs(w, value) ==
    \* 229
    IF value = "" THEN w
    \* 231: Object.entries(undefined) raises
    ELSE IF w.functionSelectors.kind = "undefined" THEN w
    ELSE
      LET entries == w.functionSelectors.entries
          hits == { i \in 1..Len(entries) : entries[i].fnSig = value }
          \* 232: the first match, undefined without one
          funcProperties ==
              IF hits = {} THEN Undefined
              ELSE entries[CHOOSE i \in hits : \A j \in hits : i <= j]
          \* 235-239
          w1 == [w EXCEPT !.selectedFunction = funcProperties,
                          !.state = [Spread(w.state) EXCEPT
                                       !.selectedFunction = funcProperties],
                          !.inputs = <<>>]
      IN \* 242: funcProperties[1] of undefined raises
         IF funcProperties.kind # "entry" THEN w1
         \* 251: state.argsValues[...] raises on a state without argsValues,
         \* in the first turn of the loop, before the input is appended
         ELSE IF Len(funcProperties.args) > 0 /\ ~w1.state.argsValues.defined
              THEN w1
         ELSE [w1 EXCEPT !.inputs =
                 [i \in 1..Len(funcProperties.args) |->
                    IF Stored(w1.state.argsValues, funcProperties.key, i) # ""
                    THEN Stored(w1.state.argsValues, funcProperties.key, i)
                    ELSE funcProperties.args[i]]]

\* addOptionsToFunctionSelector of the webview (206-225). Every call adds one
\* more click listener (213); the listeners all run createArgsInputs on the
\* same event, and a second run on the state the first one left changes
\* nothing, so a click is modelled as one run.
addOptionsToFunctionSelector(w, table, sel) ==
    LET \* 207-208
        st == [Spread(w.state) EXCEPT !.functionSelectors = table]
        \* 216-220: the options are added after those already there
        opts == w.options \o Sigs(table)
        \* an empty select shows its first option once it has one
        shown0 == IF w.selectValue = "" /\ Len(opts) > 0 THEN opts[1]
                  ELSE w.selectValue
        \* 222: assigning a value no option has leaves nothing selected
        shown1 == IF sel.kind = "entry"
                  THEN (IF Has(opts, sel.fnSig) THEN sel.fnSig ELSE "")
                  ELSE shown0
        w1 == [w EXCEPT !.functionSelectors = table, !.state = st,
                        !.options = opts, !.selectValue = shown1]
    IN \* 224
       createArgsInputs(w1, shown1)

\* The script's top level (145-154) in a page just loaded, given the state
\* the host kept for the panel.
Startup(persisted) ==
    LET oldState == IF persisted.defined
                    THEN cleanState(persisted)
                    ELSE [functionSelectors |-> UndefinedTable,
                          selectedFunction |-> Undefined,
                          argsValues |-> NoArgsValues]
        w0 == [state |-> persisted,
               functionSelectors |-> oldState.functionSelectors,
               selectedFunction |-> oldState.selectedFunction,
               options |-> <<>>, selectValue |-> "", inputs |-> <<>>]
    IN addOptionsToFunctionSelector(w0, oldState.functionSelectors,
                                    oldState.selectedFunction)

Message(type, data, sel, argsArr) ==
    [type |-> type, data |-> data, selectedFunction |-> sel, argsArr |-> argsArr]

\* prepareDebugSession (170-185): the message posted, or none when line 178
\* raises.
prepareDebugSession(w) ==
    IF Len(w.inputs) > 0 /\ w.selectedFunction.kind # "entry"
    THEN <<>>
    ELSE <<Message("start-debug", UndefinedTable, w.selectedFunction,
                   [i \in 1..Len(w.inputs) |->
                      <<IF i <= Len(w.selectedFunction.args)
                        THEN w.selectedFunction.args[i] ELSE "undefined",
                        w.inputs[i]>>])>>

SetWv(w) ==
    /\ wvState' = w.state
    /\ functionSelectors' = w.functionSelectors
    /\ selectedFunction' = w.selectedFunction
    /\ options' = w.options
    /\ selectValue' = w.selectValue
    /\ inputs' = w.inputs

UiInit ==
    /\ docTable \in Tables
    /\ LET w == Startup(UndefinedState)
       IN /\ wvState = w.state
          /\ functionSelectors = w.functionSelectors
          /\ selectedFunction = w.selectedFunction
          /\ options = w.options
          /\ selectValue = w.selectValue
          /\ inputs = w.inputs
    /\ toHost = <<>>
    /\ toWebview = <<>>
    /\ debugCalls = <<>>
    /\ debugClicks = 0
    /\ uiEvent = "startup"

UiIdle ==
    /\ docTable = Table(<<>>)
    /\ LET w == Startup(UndefinedState)
       IN /\ wvState = w.state
          /\ functionSelectors = w.functionSelectors
          /\ selectedFunction = w.selectedFunction
          /\ options = w.options
          /\ selectValue = w.selectValue
          /\ inputs = w.inputs
    /\ toHost = <<>>
    /\ toWebview = <<>>
    /\ debugCalls = <<>>
    /\ debugClicks = 0
    /\ uiEvent = "startup"

\* The click handler of .load-interface (159-163).
ClickLoadInterface ==
    /\ Len(toHost) + Len(toWebview) < MaxInFlight
    /\ options' = <<>>
    /\ selectValue' = ""
    /\ toHost' = Append(toHost, Message("loadDocument", UndefinedTable, Undefined, <<>>))
    /\ uiEvent' = "load"
    /\ UNCHANGED <<docTable, wvState, functionSelectors, selectedFunction,
                   inputs, toWebview, debugCalls, debugClicks>>

\* onDidReceiveMessage, case "loadDocument" (41-46), with the provider's
\* addOptionsToFunctionSelector (72-77); _view is set (64) before any
\* message can arrive.
HostLoadDocument ==
    /\ Len(toHost) > 0
    /\ Head(toHost).type = "loadDocument"
    /\ toHost' = Tail(toHost)
    /\ toWebview' = Append(toWebview,
                           Message("receiveContractInterface", docTable, Undefined, <<>>))
    /\ uiEvent' = "hostLoad"
    /\ UNCHANGED <<docTable, wvState, functionSelectors, selectedFunction,
                   options, selectValue, inputs, debugCalls, debugClicks>>

\* onDidReceiveMessage, case "start-debug" (47-60).
HostStartDebug ==
    /\ Len(toHost) > 0
    /\ Head(toHost).type = "start-debug"
    /\ toHost' = Tail(toHost)
    /\ debugCalls' = Append(debugCalls,
                            [selectedFunction |-> Head(toHost).selectedFunction,
                             argsArr |-> Head(toHost).argsArr])
    /\ uiEvent' = "hostStart"
    /\ UNCHANGED <<docTable, wvState, functionSelectors, selectedFunction,
                   options, selectValue, inputs, toWebview, debugClicks>>

\* The webview's message listener (189-197).
ReceiveContractInterface ==
    /\ Len(toWebview) > 0
    /\ Head(toWebview).type = "receiveContractInterface"
    /\ toWebview' = Tail(toWebview)
    /\ SetWv(addOptionsToFunctionSelector(Wv, Head(toWebview).data, Null))
    /\ uiEvent' = "reply"
    /\ UNCHANGED <<docTable, toHost, debugCalls, debugClicks>>

\* The user picks an option of #function-select; the click listeners of
\* line 213 run.
SelectFunction ==
    \E i \in 1..Len(options) :
        /\ SetWv(createArgsInputs([Wv EXCEPT !.selectValue = options[i]], options[i]))
        /\ uiEvent' = "select"
        /\ UNCHANGED <<docTable, toHost, toWebview, debugCalls, debugClicks>>

\* The click handler of .start-debug (165-167).
ClickStartDebug ==
    /\ Len(toHost) + Len(toWebview) < MaxInFlight
    /\ debugClicks < MaxDebugClicks
    /\ debugClicks' = debugClicks + 1
    /\ toHost' = toHost \o prepareDebugSession(Wv)
    /\ uiEvent' = "start"
    /\ UNCHANGED <<docTable, wvState, functionSelectors, selectedFunction,
                   options, selectValue, inputs, toWebview, debugCalls>>

\* The user edits the active document.
EditDocument ==
    /\ \E t \in Tables \ {docTable} : docTable' = t
    /\ uiEvent' = "edit"
    /\ UNCHANGED <<wvState, functionSelectors, selectedFunction, options,
                   selectValue, inputs, toHost, toWebview, debugCalls, debugClicks>>

\* The panel is hidden and shown again: the page is loaded afresh with the
\* persisted state, and replies on their way to the old page are lost.
Reload ==
    /\ uiEvent # "reload"
    /\ SetWv(Startup(wvState))
    /\ toWebview' = <<>>
    /\ uiEvent' = "reload"
    /\ UNCHANGED <<docTable, toHost, debugCalls, debugClicks>>

\* The "input" listener of an argument field (253-262): the typed text is
\* shown and stored under state.argsValues[key][id]. No specification takes
\* this step: line 251 raises before an input with the listener is ever
\* appended (see createArgsInputs), so there is no field to type into.
InputListener(i, text) ==
    /\ i \in 1..Len(inputs)
    /\ selectedFunction.kind = "entry"
    /\ wvState.argsValues.defined
    /\ inputs' = [inputs EXCEPT ![i] = text]
    /\ wvState' = [wvState EXCEPT !.argsValues.vals =
          { r \in @ : ~(r.key = selectedFunction.key /\ r.id = i) }
          \cup {[key |-> selectedFunction.key, id |-> i, value |-> text]}]
    /\ uiEvent' = "input"
    /\ UNCHANGED <<docTable, functionSelectors, selectedFunction, options,
                   selectValue, toHost, toWebview, debugCalls, debugClicks>>

(***************************************************************************)
(* Specifications                                                          *)
(***************************************************************************)

InitInstall == InstInit /\ FmtIdle /\ FsIdle /\ UiIdle

NextInstall ==
    \/ checkInstallations /\ UNCHANGED <<fmtVars, fsVars, uiVars>>
    \/ HevmCheckSettles /\ UNCHANGED <<fmtVars, fsVars, uiVars>>
    \/ PromiseAllResolves /\ UNCHANGED <<fmtVars, fsVars, uiVars>>
    \/ ToolsChange /\ UNCHANGED <<fmtVars, fsVars, uiVars>>

SpecInstall == InitInstall /\ [][NextInstall]_vars

InitFmt == InstIdle /\ FmtInit /\ FsIdle /\ UiIdle

NextFmt ==
    \/ Format /\ UNCHANGED <<instVars, fsVars, uiVars>>
    \/ FormatAgain /\ UNCHANGED <<instVars, fsVars, uiVars>>

SpecFmt == InitFmt /\ [][NextFmt]_vars

InitFs == InstIdle /\ FmtIdle /\ FsInit /\ UiIdle

NextFs ==
    \/ PurgeCache /\ UNCHANGED <<instVars, fmtVars, uiVars>>
    \/ WriteHevmCommand /\ UNCHANGED <<instVars, fmtVars, uiVars>>
    \/ ResetStateRepo /\ UNCHANGED <<instVars, fmtVars, uiVars>>
    \/ DeployContract /\ UNCHANGED <<instVars, fmtVars, uiVars>>

SpecFs == InitFs /\ [][NextFs]_vars

InitUi == InstIdle /\ FmtIdle /\ FsIdle /\ UiInit

NextUi ==
    \/ ClickLoadInterface /\ UNCHANGED <<instVars, fmtVars, fsVars>>
    \/ HostLoadDocument /\ UNCHANGED <<instVars, fmtVars, fsVars>>
    \/ HostStartDebug /\ UNCHANGED <<instVars, fmtVars, fsVars>>
    \/ ReceiveContractInterface /\ UNCHANGED <<instVars, fmtVars, fsVars>>
    \/ SelectFunction /\ UNCHANGED <<instVars, fmtVars, fsVars>>
    \/ ClickStartDebug /\ UNCHANGED <<instVars, fmtVars, fsVars>>
    \/ EditDocument /\ UNCHANGED <<instVars, fmtVars, fsVars>>
    \/ Reload /\ UNCHANGED <<instVars, fmtVars, fsVars>>

SpecUi == InitUi /\ [][NextUi]_vars

(***************************************************************************)
(* Properties                                                              *)
(***************************************************************************)

Last(seq) == seq[Len(seq)]

\* C1: checkInstallations resolves true only if both the hevm check and the
\* huffc check were invoked and both tools are present; when exactly one of
\* the two tools is absent it resolves false and exactly one diagnostic,
\* the one naming the missing tool, is shown.
C1_AggregateNeedsBothChecks ==
    pcInst = "done" =>
       /\ (returned => /\ hevmInvoked /\ huffcInvoked
                       /\ hevmInstalled /\ huffcInstalled)
       /\ (hevmInstalled # huffcInstalled =>
             /\ ~returned
             /\ ShownThisCall =
                   <<IF hevmInstalled THEN HuffcMessage ELSE HevmMessage>>)

\* Whether cmd holds the flag `--state <cwd>/<statePath>`.
HasStateFlag(cmd) ==
    \E i \in 1..(Len(cmd) - 1) :
        cmd[i] = "--state" /\ cmd[i + 1] = Join(Cwd, statePath)

\* C2: the command deployContract builds (and writes to the command file)
\* holds the flag `--state <cwd>/<statePath>` if and only if stateChecked or
\* storageChecked is enabled; without either the word --state is not in it.
C2_StateFlagIffChecked ==
    (lastOp.op = "deploy" /\ lastOp.command # NoFile) =>
       /\ HasStateFlag(lastOp.command)
            <=> (lastOp.stateChecked \/ lastOp.storageChecked)
       /\ ~(lastOp.stateChecked \/ lastOp.storageChecked)
            => ~Has(lastOp.command, "--state")
       /\ Has(lastOp.steps, "write") /\ lastOp.outcome = "ok"
            => cmdFile = lastOp.command

\* C2's case: a deploy with storage checking alone, whose command carries
\* the flag.
C2_Witness ==
    /\ lastOp.op = "deploy"
    /\ ~lastOp.stateChecked /\ lastOp.storageChecked
    /\ lastOp.engineRan
    /\ HasStateFlag(lastOp.command)

\* C3: when deployContract runs the engine with state or storage checking
\* enabled, the state repository was reset earlier in that call and holds
\* exactly one empty initial revision when the engine command is executed;
\* when the reset fails, the engine command is not executed.
C3_EngineSeesFreshRepo ==
    lastOp.op = "deploy" =>
       /\ (lastOp.engineRan /\ (lastOp.stateChecked \/ lastOp.storageChecked)) =>
             /\ lastOp.resetRan
             /\ lastOp.resetOutcome = "ok"
             /\ lastOp.engineSaw = FreshRepo
       /\ lastOp.resetOutcome = "threw" => ~lastOp.engineRan

\* C3's case: the engine ran with checking enabled on a path that held a
\* repository with further revisions before the call.
C3_Witness ==
    /\ lastOp.op = "deploy"
    /\ lastOp.engineRan
    /\ lastOp.stateChecked
    /\ lastOp.repoBefore.revs > 1
    /\ lastOp.engineSaw = FreshRepo

\* C4: when resetStateRepo returns, <cwd>/<statePath> is a repository with
\* exactly one revision and no tracked files, whatever the path held before;
\* and a reset none of whose calls fails returns, in particular the second
\* of two resets in a row.
C4_ResetPostcondition ==
    lastOp.op = "reset" =>
       /\ lastOp.outcome = "ok" => repo = FreshRepo
       /\ lastOp.faultFree => lastOp.outcome = "ok"

\* C4's case: a reset right after a reset that returned.
C4_Witness ==
    /\ lastOp.op = "reset"
    /\ lastOp.afterReset
    /\ lastOp.repoBefore = FreshRepo
    /\ lastOp.outcome = "ok"
    /\ repo = FreshRepo

\* C6: for "0x" followed by hex digits, formatEvenBytes returns a literal
\* with an even number of digits: its argument when the digit count is
\* even, its argument with one "0" put right after "0x" otherwise; and
\* formatting the result again changes nothing.
C6_EvenAndIdempotent ==
    /\ fmtPc >= 1 =>
          /\ Len(Digits(fmtOut)) % 2 = 0
          /\ SubSeq(fmtOut, 1, 2) = <<"0", "x">>
          /\ Len(Digits(fmtIn)) % 2 = 0 => fmtOut = fmtIn
          /\ Len(Digits(fmtIn)) % 2 = 1 =>
                fmtOut = <<"0", "x", "0">> \o Digits(fmtIn)
    /\ fmtPc = 2 => fmtOut2 = fmtOut

\* C6's case: a literal with an odd digit count, formatted twice.
C6_Witness ==
    /\ fmtPc = 2
    /\ Len(Digits(fmtIn)) = 3
    /\ Len(fmtOut) = Len(fmtIn) + 1

\* C7: the check-then-create of the cache directory does not raise when
\* <cwd>/cache exists and leaves it there; purgeCache does not raise when it
\* does not exist; the directory exists after an ensure that returned and is
\* absent after a purge.
C7_EnsureAndPurge ==
    /\ (Has(lastOp.steps, "access") /\ lastOp.cacheBefore) =>
          ~Has(lastOp.steps, "mkdirCache") /\ cacheDir
    /\ (Has(lastOp.steps, "access")
          /\ ~(lastOp.outcome = "threw" /\ Last(lastOp.steps) = "mkdirCache")) =>
          cacheDir
    /\ lastOp.op = "purge" => lastOp.outcome = "ok" /\ ~cacheDir

\* C8: in the deletions of purgeCache and resetStateRepo only "not found" is
\* swallowed and logged; on any other error of the deletion the operation
\* raises and none of its later steps runs.
C8_OnlyNotFoundSwallowed ==
    lastOp.op \in {"purge", "reset"} =>
       /\ lastOp.rmError = "ENOENT" => Has(lastOp.steps, "log")
       /\ lastOp.rmError \notin {"none", "ENOENT"} =>
             /\ lastOp.outcome = "threw"
             /\ lastOp.steps = <<"rm">>

\* The entry of the function table for a signature (the first, as line 232).
EntryFor(table, sig) ==
    LET hits == { i \in 1..Len(table.entries) : table.entries[i].fnSig = sig }
    IN table.entries[CHOOSE i \in hits : \A j \in hits : i <= j]

\* The fields expected when function f is shown.
ExpectedInputs(f) ==
    [i \in 1..Len(f.args) |->
       IF Stored(wvState.argsValues, f.key, i) # ""
       THEN Stored(wvState.argsValues, f.key, i)
       ELSE f.args[i]]

\* C5: selecting a function of the table shows one input field per declared
\* argument, each holding the last value typed for that function and
\* argument, or the argument's placeholder when nothing was typed.
C5_SelectRendersInputs ==
    (uiEvent = "select" /\ Has(Sigs(functionSelectors), selectValue)) =>
       inputs = ExpectedInputs(EntryFor(functionSelectors, selectValue))

\* C9: once a receiveContractInterface reply has been handled, the
\* selection control holds exactly one option per function signature of the
\* table received, and no argument input of an earlier table is left.
C9_ReplyRepopulates ==
    uiEvent = "reply" =>
       /\ options = Sigs(functionSelectors)
       /\ inputs # <<>> =>
             /\ Has(Sigs(functionSelectors), selectValue)
             /\ selectedFunction = EntryFor(functionSelectors, selectValue)

\* C10: a click on start-debug, with a function selected in the selection
\* control, posts one start-debug message whose selectedFunction is that
\* function's entry of the table shown and whose argsArr holds, in
\* declaration order, one (argument, input value) pair per declared
\* argument; startDebugger is called with a function and an argument list
\* of that shape.
C10_StartDebugCarriesSelection ==
    /\ (uiEvent = "start" /\ Has(Sigs(functionSelectors), selectValue)) =>
          /\ toHost # <<>>
          /\ Last(toHost).type = "start-debug"
          /\ LET f == EntryFor(functionSelectors, selectValue)
                 m == Last(toHost)
             IN /\ m.selectedFunction = f
                /\ Len(m.argsArr) = Len(f.args)
                /\ Len(inputs) = Len(f.args)
                /\ \A i \in 1..Len(f.args) : m.argsArr[i] = <<f.args[i], inputs[i]>>
    /\ (uiEvent = "hostStart" /\ Last(debugCalls).selectedFunction.kind = "entry") =>
          LET c == Last(debugCalls)
          IN /\ Len(c.argsArr) = Len(c.selectedFunction.args)
             /\ \A i \in 1..Len(c.argsArr) :
                   c.argsArr[i][1] = c.selectedFunction.args[i]

=============================================================================
